---- MODULE Spec2Model ----
(***************************************************************************)
(* chickenwire: hexagonal coordinates and the adjacency-aware HexGrid.     *)
(*                                                                         *)
(* Values.  A Cube is a triple <<x, y, z>>.  An Offset and a Double are    *)
(* records [col, row].  A MultiCoord is the record [sys, a, b, c] of       *)
(* coordinate/mod.rs, the Option<i32> field c being <<>> (None) or <<z>>   *)
(* (Some(z)).  A HexGrid is the record [tilt, parity, sys, nodes, edges,   *)
(* map]: nodes is the node vector of the StableGraph (NodeIndex i holds    *)
(* the weight nodes[i + 1]), edges the edge vector in edge-index order     *)
(* (a StableGraph is a multigraph: parallel edges and self-loops are       *)
(* kept), map the HashMap<Cube, NodeIndex>.                                *)
(*                                                                         *)
(* A call that panics yields [panic |-> TRUE] and the grid unmodified up   *)
(* to the panic; the behaviour ends there (pc = "panicked").               *)
(*                                                                         *)
(* Two programs are explored.  Spec drives a HexGrid through its           *)
(* constructors and methods.  CubeSpec drives a Cube value through the     *)
(* public operations of coordinate/cube.rs: cur is the Cube the caller     *)
(* holds and call the latest call made on it.                              *)
(* All integers of the model stay far inside i32, so no wrap is modelled.  *)
(***************************************************************************)
EXTENDS Integers, Sequences, FiniteSets, TLC

VARIABLES grid, pre, last, pc, cur, call

vars == <<grid, pre, last, pc, cur, call>>

(***************************************************************************)
(* Bounds of the exploration.                                              *)
(***************************************************************************)
\* add/set insert only while the grid holds fewer than MaxNodes nodes
MaxNodes == 2
\* new_radial is called with radius 0..MaxRadius
MaxRadius == 1
\* new_boxy is called with each argument in 0..MaxSide
MaxSide == 2

\* CubeSpec keeps every component of the Cube in hand within
\* -MaxCoord..MaxCoord
MaxCoord == 2
\* integer arguments of the coordinate constructors, and the components of
\* the second Cube of a binary operation, are drawn from -MaxArg..MaxArg
MaxArg == 1
\* neighbor and diagonal are called with an index in 0..MaxIndex
MaxIndex == 7
\* rotate_cw and rotate_cc are called with 0..MaxTurns turns
MaxTurns == 7
\* ring and spiral are called with a radius in 0..MaxRing
MaxRing == 2
\* scalars of `*` and `/` are drawn from -MaxScalar..MaxScalar
MaxScalar == 2

\* the stored type T is opaque to the grid: two values tell a slot that was
\* overwritten from one that was kept
Data == {0, 1}

(***************************************************************************)
(* Rust integer operators.                                                 *)
(***************************************************************************)
Abs(n) == IF n >= 0 THEN n ELSE -n

\* i32 `/` for a non-zero divisor: the quotient truncated toward zero
RDiv(a, b) ==
    IF (a >= 0) = (b > 0) THEN Abs(a) \div Abs(b) ELSE -(Abs(a) \div Abs(b))

\* `n & 1` on a two's-complement i32: the lowest bit
Bit0(n) == n % 2

Max(a, b) == IF a >= b THEN a ELSE b

(***************************************************************************)
(* Cube (coordinate/cube.rs).                                              *)
(***************************************************************************)
Cube_ORIGIN == <<0, 0, 0>>

\* the table with its fourth and fifth entries exchanged
Cube_NEIGHBOR_OFFSETS_swapped ==
    << <<1, 0, -1>>, <<1, -1, 0>>, <<0, -1, 1>>,
       <<-1, 1, 0>>, <<-1, 0, 1>>, <<0, 1, -1>> >>

Cube_NEIGHBOR_OFFSETS ==
    << <<1, 0, -1>>, <<1, -1, 0>>, <<0, -1, 1>>,
       <<-1, 0, 1>>, <<-1, 1, 0>>, <<0, 1, -1>> >>

Cube_add(p, q) == <<p[1] + q[1], p[2] + q[2], p[3] + q[3]>>

Cube_sub(p, q) == <<p[1] - q[1], p[2] - q[2], p[3] - q[3]>>

Cube_mul(p, n) == <<p[1] * n, p[2] * n, p[3] * n>>

\* a value that stands for a panic: the empty tuple
Panicked(v) == DOMAIN v = {}

\* division rounding every quotient down instead of toward zero
Cube_div_floor(p, n) ==
    IF n = 0 THEN <<>> ELSE <<p[1] \div n, p[2] \div n, p[3] \div n>>

\* Div<i32>: i32 `/` panics on a zero divisor ("attempt to divide by zero");
\* the operator returns a bare Cube built from the three quotients
Cube_div(p, n) ==
    IF n = 0 THEN <<>> ELSE <<RDiv(p[1], n), RDiv(p[2], n), RDiv(p[3], n)>>

\* From<(i32, i32, i32)>: the triple itself when it sums to zero, else a panic
\* (modelled as the empty tuple, which no Cube equals)
Cube_from_tuple3(t) == IF t[3] = 0 - t[1] - t[2] THEN t ELSE <<>>

\* from_coords deriving z the way set_coords does, accepting every triple
Cube_from_coords_fix(x, y, z) == [tag |-> "Ok", cube |-> <<x, y, 0 - x - y>>]

\* from_coords returns a CubeResult: Ok(Cube) or Err(&'static str)
Cube_from_coords(x, y, z) ==
    IF z = 0 - x - y THEN [tag |-> "Ok", cube |-> <<x, y, z>>]
    ELSE [tag |-> "Err", msg |-> "invalid Cube coordinate"]

Cube_from_tuple(t) == Cube_from_coords(t[1], t[2], t[3])

\* set_coords ignores its third argument and derives z
Cube_set_coords(self, x, y, z) == <<x, y, 0 - x - y>>

\* From<Axial>: an Axial is the record [q, r]
Cube_from_Axial(coord) ==
    LET x == coord.q
        z == coord.r
        y == 0 - x - z
    IN <<x, y, z>>

\* neighbor holding an index past the table at its last entry
Cube_neighbor_clamped(self, index) ==
    Cube_add(self, Cube_from_tuple3(
        Cube_NEIGHBOR_OFFSETS[(IF index > 5 THEN 5 ELSE index) + 1]))

\* index is a usize; NEIGHBOR_OFFSETS is indexed from 0
Cube_neighbor(self, index) ==
    Cube_add(self, Cube_from_tuple3(Cube_NEIGHBOR_OFFSETS[(index % 6) + 1]))

Cube_neighbors(self) == [i \in 1..6 |-> Cube_neighbor(self, i - 1)]

Cube_DIAGONAL_OFFSETS ==
    << <<1, -2, 1>>, <<-1, -1, 2>>, <<-2, 1, 1>>,
       <<-1, 2, -1>>, <<1, 1, -2>>, <<2, -1, -1>> >>

Cube_diagonal(self, index) ==
    Cube_add(self, Cube_from_tuple3(Cube_DIAGONAL_OFFSETS[(index % 6) + 1]))

Cube_diagonals(self) == [i \in 1..6 |-> Cube_diagonal(self, i - 1)]

\* dist taken over the x and y axes only
Cube_dist_xy(self, other) ==
    Max(Abs(self[1] - other[1]), Abs(self[2] - other[2]))

Cube_dist(self, other) ==
    Max(Max(Abs(self[1] - other[1]), Abs(self[2] - other[2])),
        Abs(self[3] - other[3]))

RECURSIVE Cube_ring_side_skew(_, _, _)
\* the inner loop stepping one direction further round than side_dir
Cube_ring_side_skew(next_coord, side_dir, count) ==
    IF count = 0 THEN <<>>
    ELSE <<next_coord>> \o
         Cube_ring_side_skew(Cube_neighbor(next_coord, side_dir + 1), side_dir,
                             count - 1)

RECURSIVE Cube_ring_side(_, _, _)
\* the inner loop of ring: `count` pushes, stepping in direction side_dir
Cube_ring_side(next_coord, side_dir, count) ==
    IF count = 0 THEN <<>>
    ELSE <<next_coord>> \o
         Cube_ring_side(Cube_neighbors(next_coord)[side_dir + 1], side_dir, count - 1)

RECURSIVE Cube_ring_sides(_, _, _)
\* the outer loop of ring, from side `side` to side 5
Cube_ring_sides(self, radius, side) ==
    IF side > 5 THEN <<>>
    ELSE LET init_index == 2
             start == Cube_add(Cube_mul(Cube_from_tuple3(Cube_NEIGHBOR_OFFSETS[side + 1]),
                                        radius), self)
             side_dir == (side + init_index) % 6
         IN Cube_ring_side(start, side_dir, radius) \o
            Cube_ring_sides(self, radius, side + 1)

\* ring walking five of the six sides
Cube_ring_five(self, radius) ==
    IF radius = 0 THEN <<self>>
    ELSE SubSeq(Cube_ring_sides(self, radius, 0), 1, 5 * radius)

Cube_ring(self, radius) ==
    IF radius = 0 THEN <<self>> ELSE Cube_ring_sides(self, radius, 0)

RECURSIVE Cube_spiral_from(_, _, _)
Cube_spiral_from(self, r, radius) ==
    IF r > radius THEN <<>>
    ELSE Cube_ring(self, r) \o Cube_spiral_from(self, r + 1, radius)

\* spiral starting at ring 1, the center left out
Cube_spiral_rings_only(self, radius) == Cube_spiral_from(self, 1, radius)

Cube_spiral(self, radius) == Cube_spiral_from(self, 0, radius)

\* force_from_coords unwraps from_coords: an Err panics
Cube_force_from_coords(x, y, z) ==
    LET made == Cube_from_coords(x, y, z)
    IN IF made.tag = "Ok" THEN made.cube ELSE <<>>

RECURSIVE Cube_rotate_cw_loop(_, _)
\* the loop of rotate_cw: `turns` sixth-turns of vector
Cube_rotate_cw_loop(vector, turns) ==
    IF turns = 0 THEN vector
    ELSE LET new_x == 0 - vector[3]
             new_y == 0 - vector[1]
             new_z == 0 - vector[2]
         IN Cube_rotate_cw_loop(Cube_set_coords(vector, new_x, new_y, new_z),
                                turns - 1)

\* rotate_cw with the roles exchanged: self turning about point
Cube_rotate_cw_about_point(self, point, num_turns) ==
    Cube_add(Cube_rotate_cw_loop(Cube_sub(self, point), num_turns % 6), point)

\* the vector runs from self to point: point turns about self
Cube_rotate_cw(self, point, num_turns) ==
    Cube_add(Cube_rotate_cw_loop(Cube_sub(point, self), num_turns % 6), self)

RECURSIVE Cube_rotate_cc_loop(_, _)
\* the loop of rotate_cc: force_from_coords panics on a vector whose
\* components do not sum to zero
Cube_rotate_cc_loop(vector, turns) ==
    IF turns = 0 THEN vector
    ELSE LET new_x == 0 - vector[2]
             new_y == 0 - vector[3]
             new_z == 0 - vector[1]
             next == Cube_force_from_coords(new_x, new_y, new_z)
         IN IF Panicked(next) THEN <<>>
            ELSE Cube_rotate_cc_loop(next, turns - 1)

\* a rotate_cc that turns the same way as rotate_cw
Cube_rotate_cc_clockwise(self, point, num_turns) ==
    Cube_rotate_cw(self, point, num_turns)

Cube_rotate_cc(self, point, num_turns) ==
    LET vector == Cube_rotate_cc_loop(Cube_sub(point, self), num_turns % 6)
    IN IF Panicked(vector) THEN <<>> ELSE Cube_add(vector, self)

(***************************************************************************)
(* Axial (coordinate/axial.rs): the record [q, r].                         *)
(***************************************************************************)
Axial_from_coords(q, r) == [q |-> q, r |-> r]

\* a From<Cube> that takes r from y
Axial_from_Cube_xy(coord) == [q |-> coord[1], r |-> coord[2]]

\* From<Cube>: q is x and r is z
Axial_from_Cube(coord) == [q |-> coord[1], r |-> coord[3]]

\* Div<i32> for Axial: panics on a zero divisor, like Cube
Axial_div(coord, n) ==
    IF n = 0 THEN <<>> ELSE [q |-> RDiv(coord.q, n), r |-> RDiv(coord.r, n)]

(***************************************************************************)
(* Offset and Double conversions (coordinate/offset.rs, double.rs).        *)
(***************************************************************************)
Offset_from_coords(col, row) == [col |-> col, row |-> row]

Offset_oflat_to_cube(self) ==
    LET x == self.col
        z == self.row - RDiv(self.col - Bit0(self.col), 2)
        y == 0 - x - z
    IN Cube_force_from_coords(x, y, z)

Offset_eflat_to_cube(self) ==
    LET x == self.col
        z == self.row - RDiv(self.col + Bit0(self.col), 2)
        y == 0 - x - z
    IN Cube_force_from_coords(x, y, z)

Offset_osharp_to_cube(self) ==
    LET x == self.col - RDiv(self.row - Bit0(self.row), 2)
        z == self.row
        y == 0 - x - z
    IN Cube_force_from_coords(x, y, z)

Offset_esharp_to_cube(self) ==
    LET x == self.col - RDiv(self.row + Bit0(self.row), 2)
        z == self.row
        y == 0 - x - z
    IN Cube_force_from_coords(x, y, z)

Double_flat_to_cube(self) ==
    LET x == self.col
        z == RDiv(self.row - self.col, 2)
        y == 0 - x - z
    IN Cube_force_from_coords(x, y, z)

Double_sharp_to_cube(self) ==
    LET x == RDiv(self.col - self.row, 2)
        z == RDiv(self.row, 2)
        y == 0 - x - z
    IN Cube_force_from_coords(x, y, z)

\* an offset_map that reads the even-parity table for every coordinate
Offset_offset_map_even(self, offsets, parity_check) ==
    [side \in 1..6 |->
        [col |-> self.col + offsets[1][side][1],
         row |-> self.row + offsets[1][side][2]]]

\* offset_map: the table is picked by the low bit of parity_check, which is
\* 1 for every odd i32, negative ones included
Offset_offset_map(self, offsets, parity_check) ==
    [side \in 1..6 |->
        [col |-> self.col + offsets[Bit0(parity_check) + 1][side][1],
         row |-> self.row + offsets[Bit0(parity_check) + 1][side][2]]]

Offset_oflat_neighbors(self) ==
    Offset_offset_map(self,
        << << <<1, -1>>, <<1, 0>>, <<0, 1>>, <<-1, 0>>, <<-1, -1>>, <<0, -1>> >>,
           << <<1, 0>>, <<1, 1>>, <<0, 1>>, <<-1, 1>>, <<-1, 0>>, <<0, -1>> >> >>,
        self.col)

Offset_eflat_neighbors(self) ==
    Offset_offset_map(self,
        << << <<1, 0>>, <<1, 1>>, <<0, 1>>, <<-1, 1>>, <<-1, 0>>, <<0, -1>> >>,
           << <<1, -1>>, <<1, 0>>, <<0, 1>>, <<-1, 0>>, <<-1, -1>>, <<0, -1>> >> >>,
        self.col)

Offset_osharp_neighbors(self) ==
    Offset_offset_map(self,
        << << <<0, -1>>, <<1, 0>>, <<0, 1>>, <<-1, 1>>, <<-1, 0>>, <<-1, -1>> >>,
           << <<1, -1>>, <<1, 0>>, <<1, 1>>, <<0, 1>>, <<-1, 0>>, <<0, -1>> >> >>,
        self.row)

Offset_esharp_neighbors(self) ==
    Offset_offset_map(self,
        << << <<1, -1>>, <<1, 0>>, <<1, 1>>, <<0, 1>>, <<-1, 0>>, <<0, -1>> >>,
           << <<0, -1>>, <<1, 0>>, <<0, 1>>, <<-1, 1>>, <<-1, 0>>, <<-1, -1>> >> >>,
        self.row)

\* Offset::dist: both ends go through eflat_to_cube
Offset_dist(self, other) ==
    Cube_dist(Offset_eflat_to_cube(self), Offset_eflat_to_cube(other))

\* a from_coords that accepts every pair
Double_from_coords_any(col, row) ==
    [tag |-> "Ok", double |-> [col |-> col, row |-> row]]

\* Double::from_coords: Ok when (col + row) & 1 == 0
Double_from_coords(col, row) ==
    IF Bit0(col + row) = 0
    THEN [tag |-> "Ok", double |-> [col |-> col, row |-> row]]
    ELSE [tag |-> "Err", msg |-> "invalid Double coordinate"]

Double_from_tuple(t) == Double_from_coords(t[1], t[2])

\* From<(i32, i32)> for Double: panics on an odd sum
Double_from_tuple2(t) ==
    IF Bit0(t[1] + t[2]) = 0 THEN [col |-> t[1], row |-> t[2]] ELSE <<>>

\* Double::force_from_coords: the unwrap of from_coords
Double_force_from_coords(col, row) ==
    IF Double_from_coords(col, row).tag = "Ok"
    THEN Double_from_coords(col, row).double
    ELSE <<>>

Double_add(self, other) ==
    [col |-> self.col + other.col, row |-> self.row + other.row]

Double_sub(self, other) ==
    [col |-> self.col - other.col, row |-> self.row - other.row]

Double_mul(self, n) == [col |-> self.col * n, row |-> self.row * n]

Double_offset_map(self, offsets) ==
    [side \in 1..6 |->
        [col |-> offsets[side][1] + self.col, row |-> offsets[side][2] + self.row]]

Double_flat_neighbors(self) ==
    Double_offset_map(self,
        << <<1, -1>>, <<1, 1>>, <<0, 2>>, <<-1, 1>>, <<-1, -1>>, <<0, -2>> >>)

Double_sharp_neighbors(self) ==
    Double_offset_map(self,
        << <<1, -1>>, <<2, 0>>, <<1, 1>>, <<-1, 1>>, <<-2, 0>>, <<-1, -1>> >>)

Double_flat_dist(self, other) ==
    Abs(self.col - other.col)
        + Max(0, RDiv(Abs(self.row - other.row) - Abs(self.col - other.col), 2))

Double_sharp_dist(self, other) ==
    Abs(self.row - other.row)
        + Max(0, RDiv(Abs(self.col - other.col) - Abs(self.row - other.row), 2))

(***************************************************************************)
(* MultiCoord (coordinate/mod.rs).                                         *)
(***************************************************************************)
MultiCoord_from_Cube(coord) ==
    [sys |-> "Cube", a |-> coord[1], b |-> coord[2], c |-> <<coord[3]>>]

\* MultiCoord::cube hands the Err of from_coords on
MultiCoord_cube(x, y, z) ==
    LET made == Cube_from_coords(x, y, z)
    IN IF made.tag = "Ok"
       THEN [tag |-> "Ok", coord |-> MultiCoord_from_Cube(made.cube)]
       ELSE [tag |-> "Err", msg |-> made.msg]

MultiCoord_from_Offset(coord) ==
    [sys |-> "Offset", a |-> coord.col, b |-> coord.row, c |-> <<>>]

MultiCoord_from_Axial(coord) ==
    [sys |-> "Axial", a |-> coord.q, b |-> coord.r, c |-> <<>>]

MultiCoord_from_Double(coord) ==
    [sys |-> "Double", a |-> coord.col, b |-> coord.row, c |-> <<>>]

MultiCoord_offset(col, row) == MultiCoord_from_Offset(Offset_from_coords(col, row))

\* From<MultiCoord> for Cube; the panicking arms (a Double or Offset tag) are
\* never reached from cube_from and yield the empty tuple
Cube_from_MultiCoord(coord) ==
    CASE coord.sys = "Axial" -> <<coord.a, 0 - coord.a - coord.b, coord.b>>
      [] coord.sys = "Cube" -> <<coord.a, coord.b, coord.c[1]>>
      [] OTHER -> <<>>

\* From<MultiCoord> for Offset: panics on any other tag
Offset_from_MultiCoord(coord) ==
    IF coord.sys = "Offset" THEN [col |-> coord.a, row |-> coord.b] ELSE <<>>

\* From<MultiCoord> for Double: panics on any other tag
Double_from_MultiCoord(coord) ==
    IF coord.sys = "Double" THEN [col |-> coord.a, row |-> coord.b] ELSE <<>>

\* From<MultiCoord> for Axial: r of a Cube tag is the unwrapped c; panics on
\* a Double or Offset tag
Axial_from_MultiCoord(coord) ==
    CASE coord.sys = "Axial" -> [q |-> coord.a, r |-> coord.b]
      [] coord.sys = "Cube" ->
            IF coord.c = <<>> THEN <<>> ELSE [q |-> coord.a, r |-> coord.c[1]]
      [] OTHER -> <<>>

MultiCoord_axial(q, r) == MultiCoord_from_Axial(Axial_from_coords(q, r))

\* MultiCoord::double hands the Err of from_coords on
MultiCoord_double(col, row) ==
    IF Double_from_coords(col, row).tag = "Ok"
    THEN [tag |-> "Ok",
          coord |-> MultiCoord_from_Double(Double_from_coords(col, row).double)]
    ELSE [tag |-> "Err", msg |-> Double_from_coords(col, row).msg]

\* the Result of a conversion out: a panic inside the Ok arm is a panic of
\* the call
Converted(ret) ==
    IF Panicked(ret) THEN [tag |-> "Panic", ret |-> ret]
    ELSE [tag |-> "Ok", ret |-> ret]

MultiCoord_to_axial(self) ==
    CASE self.sys \in {"Axial", "Cube"} -> Converted(Axial_from_MultiCoord(self))
      [] self.sys = "Double" ->
            [tag |-> "Err", ret |-> "cannot create Axial from Double MultiCoord"]
      [] self.sys = "Offset" ->
            [tag |-> "Err", ret |-> "cannot create Axial from Offset MultiCoord"]

MultiCoord_to_cube(self) ==
    CASE self.sys \in {"Axial", "Cube"} -> Converted(Cube_from_MultiCoord(self))
      [] self.sys = "Double" ->
            [tag |-> "Err", ret |-> "cannot create Cube from Double MultiCoord"]
      [] self.sys = "Offset" ->
            [tag |-> "Err", ret |-> "cannot create Cube from Offset MultiCoord"]

MultiCoord_to_double(self) ==
    CASE self.sys = "Double" -> Converted(Double_from_MultiCoord(self))
      [] self.sys = "Axial" ->
            [tag |-> "Err", ret |-> "cannot create Double from Axial MultiCoord"]
      [] self.sys = "Cube" ->
            [tag |-> "Err", ret |-> "cannot create Double from Cube MultiCoord"]
      [] self.sys = "Offset" ->
            [tag |-> "Err", ret |-> "cannot create Double from Offset MultiCoord"]

\* a to_offset that lets a Double tag through as well
MultiCoord_to_offset_lax(self) ==
    IF self.sys \in {"Offset", "Double"}
    THEN [tag |-> "Ok", ret |-> [col |-> self.a, row |-> self.b]]
    ELSE [tag |-> "Err", ret |-> "cannot create Offset from MultiCoord"]

MultiCoord_to_offset(self) ==
    CASE self.sys = "Offset" -> Converted(Offset_from_MultiCoord(self))
      [] self.sys = "Axial" ->
            [tag |-> "Err", ret |-> "cannot create Offset from Axial MultiCoord"]
      [] self.sys = "Cube" ->
            [tag |-> "Err", ret |-> "cannot create Offset from Cube MultiCoord"]
      [] self.sys = "Double" ->
            [tag |-> "Err", ret |-> "cannot create Offset from Double MultiCoord"]

(***************************************************************************)
(* Compass, Tilt, Parity, CoordSys (hexgrid.rs, coordinate/mod.rs).        *)
(***************************************************************************)
Compass ==
    {"North", "Northeast", "East", "Southeast",
     "South", "Southwest", "West", "Northwest"}

Tilt == {"Flat", "Sharp"}

Parity == {"Even", "Odd"}

CoordSys == {"Axial", "Cube", "Double", "Offset"}

Tilt_default == "Flat"

Parity_default == "Even"

CoordSys_default == "Axial"

\* the match inside the loop body of rotate_cw
Compass_next_cw(cur_dir) ==
    CASE cur_dir = "North" -> "Northeast"
      [] cur_dir = "Northeast" -> "East"
      [] cur_dir = "East" -> "Southeast"
      [] cur_dir = "Southeast" -> "South"
      [] cur_dir = "South" -> "Southwest"
      [] cur_dir = "Southwest" -> "West"
      [] cur_dir = "West" -> "Northwest"
      [] cur_dir = "Northwest" -> "North"

RECURSIVE Compass_rotate_cw_loop(_, _)
\* `let cur_dir = { match cur_dir ... };` inside the loop declares a new
\* binding that shadows the outer cur_dir for the rest of that iteration
\* only: the outer binding, which is what the function returns, is never
\* assigned
Compass_rotate_cw_loop(cur_dir, iterations) ==
    IF iterations = 0 THEN cur_dir
    ELSE LET shadow == Compass_next_cw(cur_dir)
         IN Compass_rotate_cw_loop(cur_dir, iterations - 1)

Compass_rotate_cw(self, rotations) ==
    Compass_rotate_cw_loop(self, rotations % 8)

Compass_inverse(self) ==
    CASE self = "North" -> "South"
      [] self = "Northeast" -> "Southwest"
      [] self = "East" -> "West"
      [] self = "Southeast" -> "Northwest"
      [] self = "South" -> "North"
      [] self = "Southwest" -> "Northeast"
      [] self = "West" -> "East"
      [] self = "Northwest" -> "Southeast"

(***************************************************************************)
(* The graph and the index (petgraph StableGraph, std HashMap) as the      *)
(* grid uses them.                                                         *)
(***************************************************************************)
EmptyMap == [k \in {} |-> 0]

\* StableGraph::add_node with no vacant slot (nothing is ever removed):
\* the new node takes the next index, which is returned
Graph_add_node(g, data) ==
    [g |-> [g EXCEPT !.nodes = Append(@, data)], index |-> Len(g.nodes)]

\* StableGraph::add_edge: always a new edge, parallel edges included
Graph_add_edge(g, a, b, weight) ==
    [g EXCEPT !.edges = Append(@, [source |-> a, target |-> b, weight |-> weight])]

\* StableGraph::node_weight: Some(weight) or None
Graph_node_weight(g, index) ==
    IF index < Len(g.nodes) THEN <<g.nodes[index + 1]>> ELSE <<>>

\* HashMap::insert: the entry is added, or its value replaced
Map_insert(m, key, index) ==
    [k \in (DOMAIN m) \cup {key} |-> IF k = key THEN index ELSE m[k]]

(***************************************************************************)
(* HexGrid (hexgrid.rs).                                                   *)
(***************************************************************************)
HexGrid_default ==
    [tilt |-> Tilt_default, parity |-> Parity_default, sys |-> CoordSys_default,
     nodes |-> <<>>, edges |-> <<>>, map |-> EmptyMap]

\* the inner match on (self.tilt, self.parity)
HexGrid_offset_to_cube(self, offset) ==
    CASE self.tilt = "Flat" /\ self.parity = "Odd" -> Offset_oflat_to_cube(offset)
      [] self.tilt = "Flat" /\ self.parity = "Even" -> Offset_eflat_to_cube(offset)
      [] self.tilt = "Sharp" /\ self.parity = "Odd" -> Offset_osharp_to_cube(offset)
      [] self.tilt = "Sharp" /\ self.parity = "Even" -> Offset_esharp_to_cube(offset)

HexGrid_cube_from(self, coord) ==
    CASE coord.sys = "Offset" ->
            HexGrid_offset_to_cube(self, Offset_from_MultiCoord(coord))
      [] coord.sys = "Double" ->
            LET double == Double_from_MultiCoord(coord)
            IN IF self.tilt = "Flat" THEN Double_flat_to_cube(double)
               ELSE Double_sharp_to_cube(double)
      [] OTHER -> Cube_from_MultiCoord(coord)

\* Some(index) is <<index>>, None is <<>>
HexGrid_graph_index(self, coord) ==
    LET key == HexGrid_cube_from(self, coord)
    IN IF key \in DOMAIN self.map THEN <<self.map[key]>> ELSE <<>>

RECURSIVE HexGrid_nlink_loop(_, _, _, _, _, _)
\* the `for neighbor in &ncoords` loop of nlink, from element i on; the loop
\* variable `neighbor` is bound and never read: the lookup is of `coord`
HexGrid_nlink_loop(self, coord, own_index, ncoords, i, dir) ==
    IF i > Len(ncoords) THEN self
    ELSE LET neighbor == ncoords[i]
             found == HexGrid_graph_index(self, coord)
             linked ==
                 IF found = <<>> THEN self
                 ELSE LET other_index == found[1]
                      IN Graph_add_edge(
                             Graph_add_edge(self, own_index, other_index, dir),
                             other_index, own_index, Compass_inverse(dir))
         IN HexGrid_nlink_loop(linked, coord, own_index, ncoords, i + 1,
                               Compass_rotate_cw(dir, 1))

HexGrid_nlink(self, coord) ==
    LET found == HexGrid_graph_index(self, coord)
    IN IF found = <<>> THEN self
       ELSE HexGrid_nlink_loop(self, coord, found[1],
                               Cube_neighbors(HexGrid_cube_from(self, coord)),
                               1, "Northeast")

HexGrid_new(tilt, parity, sys) ==
    [HexGrid_default EXCEPT !.tilt = tilt, !.parity = parity, !.sys = sys]

HexGrid_contains_coord(self, coord) == HexGrid_graph_index(self, coord) # <<>>

HexGrid_get(self, coord) ==
    LET found == HexGrid_graph_index(self, coord)
    IN IF found = <<>> THEN <<>> ELSE Graph_node_weight(self, found[1])

HexGrid_get_mut(self, coord) == HexGrid_get(self, coord)

\* set with the index entry forgotten: the node is added, the map is not
HexGrid_set_no_index(self, coord, data) ==
    IF HexGrid_get_mut(self, coord) # <<>>
    THEN [grid |-> self, panic |-> TRUE]
    ELSE [grid |-> HexGrid_nlink(Graph_add_node(self, data).g, coord), panic |-> FALSE]

\* set: the Some arm is unimplemented!() (a panic before any mutation); the
\* other arm adds the node and the index entry, and nlink follows it
HexGrid_set(self, coord, data) ==
    IF HexGrid_get_mut(self, coord) # <<>>
    THEN [grid |-> self, panic |-> TRUE]
    ELSE LET added == Graph_add_node(self, data)
             indexed == [added.g EXCEPT
                            !.map = Map_insert(@, HexGrid_cube_from(self, coord),
                                               added.index)]
         IN [grid |-> HexGrid_nlink(indexed, coord), panic |-> FALSE]

\* add that writes the data into the occupied slot before reporting the error
HexGrid_add_clobber(self, coord, data) ==
    IF HexGrid_contains_coord(self, coord)
    THEN [grid |-> [self EXCEPT !.nodes[HexGrid_graph_index(self, coord)[1] + 1] = data],
          ret |-> "Err"]
    ELSE LET done == HexGrid_set(self, coord, data)
         IN [grid |-> done.grid, ret |-> IF done.panic THEN "Panic" ELSE "Ok"]

\* Result<(), String>: "Ok" or "Err"
HexGrid_add(self, coord, data) ==
    IF HexGrid_contains_coord(self, coord)
    THEN [grid |-> self, ret |-> "Err"]
    ELSE LET done == HexGrid_set(self, coord, data)
         IN [grid |-> done.grid, ret |-> IF done.panic THEN "Panic" ELSE "Ok"]

HexGrid_update(self, coord, data) ==
    IF HexGrid_contains_coord(self, coord)
    THEN LET done == HexGrid_set(self, coord, data)
         IN [grid |-> done.grid, ret |-> IF done.panic THEN "Panic" ELSE "Ok"]
    ELSE [grid |-> self, ret |-> "Err"]

\* remove is unimplemented!(): every call panics
HexGrid_remove(self, coord) == [grid |-> self, ret |-> "Panic"]

RECURSIVE HexGrid_set_each(_, _, _, _)
\* `for c in coords { grid.set(c, blank_val); }` from element i on; a panic
\* of set ends the loop
HexGrid_set_each(self, coords, i, blank_val) ==
    IF i > Len(coords) THEN [grid |-> self, panic |-> FALSE]
    ELSE LET done == HexGrid_set(self, coords[i], blank_val)
         IN IF done.panic THEN done
            ELSE HexGrid_set_each(done.grid, coords, i + 1, blank_val)

\* new_radial reading `radius` as counting the center hex: radius - 1 rings
HexGrid_new_radial_inner(radius, blank_val) ==
    LET start == HexGrid_default
    IN IF radius # 0
       THEN LET new_hexes == Cube_spiral(Cube_ORIGIN, radius - 1)
            IN HexGrid_set_each(start,
                                [i \in 1..Len(new_hexes) |-> MultiCoord_from_Cube(new_hexes[i])],
                                1, blank_val)
       ELSE [grid |-> start, panic |-> FALSE]

HexGrid_new_radial(radius, blank_val) ==
    LET start == HexGrid_default
    IN IF radius # 0
       THEN LET new_hexes == Cube_spiral(Cube_ORIGIN, radius)
            IN HexGrid_set_each(start,
                                [i \in 1..Len(new_hexes) |-> MultiCoord_from_Cube(new_hexes[i])],
                                1, blank_val)
       ELSE [grid |-> start, panic |-> FALSE]

\* the offsets new_boxy visits: col outer (0..cols), row inner (0..rows)
BoxyOrder(rows, cols) ==
    [i \in 1..(cols * rows) |->
        MultiCoord_from_Offset([col |-> (i - 1) \div rows, row |-> (i - 1) % rows])]

\* the first parameter is `rows`, the second `cols`
HexGrid_new_boxy(rows, cols, blank_val) ==
    LET start == [HexGrid_default EXCEPT !.sys = "Offset"]
    IN HexGrid_set_each(start, BoxyOrder(rows, cols), 1, blank_val)

(***************************************************************************)
(* The program: a grid is constructed once, then driven through            *)
(* add / update / set / remove.  `last` is the latest call: its name, the  *)
(* integer arguments of a constructor, whether the key of a method was     *)
(* occupied when it was called, and what came back ("Ok" and "Err" of a    *)
(* Result, "Unit" for (), "Panic").  `pre` is the grid as that call found  *)
(* it.                                                                     *)
(***************************************************************************)
Range(s) == {s[i] : i \in DOMAIN s}

\* the keys the callers use: every Cube within one step of the origin, two
\* Offsets, an Axial and a Double
Keys ==
    {MultiCoord_from_Cube(c) : c \in Range(Cube_spiral(Cube_ORIGIN, 1))}
    \cup {MultiCoord_offset(0, 1), MultiCoord_offset(1, 0)}
    \cup {MultiCoord_from_Axial([q |-> 1, r |-> -1])}
    \cup {MultiCoord_from_Double([col |-> 1, row |-> 1])}

\* the (tilt, parity, sys) triples HexGrid::new is called with: every
\* (tilt, parity) pair and every sys
Configs ==
    { <<"Flat", "Odd", "Offset">>, <<"Flat", "Even", "Axial">>,
      <<"Sharp", "Odd", "Double">>, <<"Sharp", "Even", "Cube">> }

Call(op, args, hit, ret) == [op |-> op, args |-> args, hit |-> hit, ret |-> ret]

\* a call on the Cube in hand: its name, its receiver, its arguments, the
\* kind of value that came back ("Cube", "Vec", "Int", "Axial", the "Ok" and
\* "Err" of a Result, "Panic") and that value
CubeCall(op, self, args, tag, ret) ==
    [op |-> op, self |-> self, args |-> args, tag |-> tag, ret |-> ret]

NoCall == CubeCall("none", Cube_ORIGIN, <<>>, "Cube", Cube_ORIGIN)

Init ==
    /\ grid = HexGrid_default
    /\ pre = HexGrid_default
    /\ last = Call("none", <<>>, FALSE, "Unit")
    /\ pc = "start"
    /\ cur = Cube_ORIGIN
    /\ call = NoCall

\* a constructor returns (or panics)
Construct(after, op, args, panic) ==
    /\ grid' = after
    /\ pre' = grid
    /\ last' = Call(op, args, FALSE, IF panic THEN "Panic" ELSE "Unit")
    /\ pc' = IF panic THEN "panicked" ELSE "live"
    /\ UNCHANGED <<cur, call>>

\* a method called with key coord returns (or panics)
Return(after, op, coord, ret) ==
    /\ grid' = after
    /\ pre' = grid
    /\ last' = Call(op, <<>>, HexGrid_cube_from(grid, coord) \in DOMAIN grid.map, ret)
    /\ pc' = IF ret = "Panic" THEN "panicked" ELSE "live"
    /\ UNCHANGED <<cur, call>>

New ==
    /\ pc = "start"
    /\ \E cfg \in Configs :
         Construct(HexGrid_new(cfg[1], cfg[2], cfg[3]), "new", <<>>, FALSE)

NewRadial ==
    /\ pc = "start"
    /\ \E radius \in 0..MaxRadius, blank_val \in Data :
         LET done == HexGrid_new_radial(radius, blank_val)
         IN Construct(done.grid, "new_radial", <<radius, blank_val>>, done.panic)

NewBoxy ==
    /\ pc = "start"
    /\ \E first \in 0..MaxSide, second \in 0..MaxSide, blank_val \in Data :
         LET done == HexGrid_new_boxy(first, second, blank_val)
         IN Construct(done.grid, "new_boxy", <<first, second, blank_val>>, done.panic)

\* an insertion is explored only while the grid is below MaxNodes
Room(coord) == HexGrid_contains_coord(grid, coord) \/ Len(grid.nodes) < MaxNodes

AddCall(coord, data) ==
    /\ pc = "live"
    /\ Room(coord)
    /\ LET done == HexGrid_add(grid, coord, data)
       IN Return(done.grid, "add", coord, done.ret)

UpdateCall(coord, data) ==
    /\ pc = "live"
    /\ LET done == HexGrid_update(grid, coord, data)
       IN Return(done.grid, "update", coord, done.ret)

SetCall(coord, data) ==
    /\ pc = "live"
    /\ Room(coord)
    /\ LET done == HexGrid_set(grid, coord, data)
       IN Return(done.grid, "set", coord, IF done.panic THEN "Panic" ELSE "Unit")

RemoveCall(coord) ==
    /\ pc = "live"
    /\ LET done == HexGrid_remove(grid, coord)
       IN Return(done.grid, "remove", coord, done.ret)

Add == \E coord \in Keys, data \in Data : AddCall(coord, data)

Update == \E coord \in Keys, data \in Data : UpdateCall(coord, data)

Set == \E coord \in Keys, data \in Data : SetCall(coord, data)

Remove == \E coord \in Keys : RemoveCall(coord)

Next == New \/ NewRadial \/ NewBoxy \/ Add \/ Update \/ Set \/ Remove

Spec == Init /\ [][Next]_vars

(***************************************************************************)
(* The Cube program: a caller holds a Cube (cur), calls one public         *)
(* operation of coordinate/cube.rs on it (pc = "returned", the call and    *)
(* what it returned in `call`), then goes on with a Cube that came back or *)
(* with the one it held (Take).  A panic ends the behaviour.               *)
(***************************************************************************)
Ints(n) == (0 - n)..n

\* the Cubes passed as the second operand: the valid Cubes within MaxArg
Others ==
    {<<x, y, 0 - x - y>> : x, y \in Ints(MaxArg)} \cap
    (Ints(MaxArg) \X Ints(MaxArg) \X Ints(MaxArg))

InBox(c) == \A i \in 1..3 : Abs(c[i]) <= MaxCoord

CubeInit ==
    /\ grid = HexGrid_default
    /\ pre = HexGrid_default
    /\ last = Call("none", <<>>, FALSE, "Unit")
    /\ pc = "ready"
    /\ cur = Cube_ORIGIN
    /\ call = NoCall

\* the operation returns (or panics)
Answer(op, args, tag, ret) ==
    /\ call' = CubeCall(op, cur, args, tag, ret)
    /\ pc' = IF tag = "Panic" THEN "panicked" ELSE "returned"
    /\ UNCHANGED <<grid, pre, last, cur>>

\* an operation whose return type is Cube
AnswerCube(op, args, ret) ==
    Answer(op, args, IF Panicked(ret) THEN "Panic" ELSE "Cube", ret)

\* an operation whose return type is CubeResult
AnswerResult(op, args, made) ==
    Answer(op, args, made.tag, IF made.tag = "Ok" THEN made.cube ELSE made.msg)

FromCoords ==
    /\ pc = "ready"
    /\ \E x, y, z \in Ints(MaxArg) :
         \/ AnswerResult("from_coords", <<x, y, z>>, Cube_from_coords(x, y, z))
         \/ AnswerResult("from_tuple", <<x, y, z>>, Cube_from_tuple(<<x, y, z>>))

MultiCube ==
    /\ pc = "ready"
    /\ \E x, y, z \in Ints(MaxArg) :
         LET made == MultiCoord_cube(x, y, z)
         IN Answer("MultiCoord::cube", <<x, y, z>>, made.tag,
                   IF made.tag = "Ok" THEN made.coord ELSE made.msg)

SetCoords ==
    /\ pc = "ready"
    /\ \E x, y, z \in Ints(MaxArg) :
         AnswerCube("set_coords", <<x, y, z>>, Cube_set_coords(cur, x, y, z))

AddCube ==
    /\ pc = "ready"
    /\ \E other \in Others : AnswerCube("add", <<other>>, Cube_add(cur, other))

SubCube ==
    /\ pc = "ready"
    /\ \E other \in Others : AnswerCube("sub", <<other>>, Cube_sub(cur, other))

MulCube ==
    /\ pc = "ready"
    /\ \E n \in Ints(MaxScalar) : AnswerCube("mul", <<n>>, Cube_mul(cur, n))

DivCube ==
    /\ pc = "ready"
    /\ \E n \in Ints(MaxScalar) : AnswerCube("div", <<n>>, Cube_div(cur, n))

DivAxial ==
    /\ pc = "ready"
    /\ \E n \in Ints(MaxScalar) :
         LET ret == Axial_div(Axial_from_Cube(cur), n)
         IN Answer("Axial::div", <<n>>,
                   IF Panicked(ret) THEN "Panic" ELSE "Axial", ret)

Neighbor ==
    /\ pc = "ready"
    /\ \E index \in 0..MaxIndex :
         AnswerCube("neighbor", <<index>>, Cube_neighbor(cur, index))

Neighbors ==
    /\ pc = "ready"
    /\ Answer("neighbors", <<>>, "Vec", Cube_neighbors(cur))

Diagonal ==
    /\ pc = "ready"
    /\ \E index \in 0..MaxIndex :
         AnswerCube("diagonal", <<index>>, Cube_diagonal(cur, index))

Diagonals ==
    /\ pc = "ready"
    /\ Answer("diagonals", <<>>, "Vec", Cube_diagonals(cur))

Dist ==
    /\ pc = "ready"
    /\ \E other \in Others : Answer("dist", <<other>>, "Int", Cube_dist(cur, other))

RotateCw ==
    /\ pc = "ready"
    /\ \E point \in Others, num_turns \in 0..MaxTurns :
         AnswerCube("rotate_cw", <<point, num_turns>>,
                    Cube_rotate_cw(cur, point, num_turns))

RotateCc ==
    /\ pc = "ready"
    /\ \E point \in Others, num_turns \in 0..MaxTurns :
         AnswerCube("rotate_cc", <<point, num_turns>>,
                    Cube_rotate_cc(cur, point, num_turns))

Ring ==
    /\ pc = "ready"
    /\ \E radius \in 0..MaxRing :
         Answer("ring", <<radius>>, "Vec", Cube_ring(cur, radius))

Spiral ==
    /\ pc = "ready"
    /\ \E radius \in 0..MaxRing :
         Answer("spiral", <<radius>>, "Vec", Cube_spiral(cur, radius))

FromAxial ==
    /\ pc = "ready"
    /\ \E q, r \in Ints(MaxArg) :
         AnswerCube("from_Axial", <<q, r>>, Cube_from_Axial(Axial_from_coords(q, r)))

\* Axial::from(cur)
ToAxial ==
    /\ pc = "ready"
    /\ Answer("Axial::from", <<>>, "Axial", Axial_from_Cube(cur))

\* Cube::from((x, y, z)), the conversion of a triple
FromTriple ==
    /\ pc = "ready"
    /\ \E x, y, z \in Ints(MaxArg) :
         AnswerCube("Cube::from", <<x, y, z>>, Cube_from_tuple3(<<x, y, z>>))

FromOffset ==
    /\ pc = "ready"
    /\ \E col, row \in Ints(MaxArg) :
         LET coord == Offset_from_coords(col, row)
         IN \/ AnswerCube("oflat_to_cube", <<col, row>>, Offset_oflat_to_cube(coord))
            \/ AnswerCube("eflat_to_cube", <<col, row>>, Offset_eflat_to_cube(coord))
            \/ AnswerCube("osharp_to_cube", <<col, row>>, Offset_osharp_to_cube(coord))
            \/ AnswerCube("esharp_to_cube", <<col, row>>, Offset_esharp_to_cube(coord))

FromDouble ==
    /\ pc = "ready"
    /\ \E col, row \in Ints(MaxArg) :
         LET coord == [col |-> col, row |-> row]
         IN \/ AnswerCube("flat_to_cube", <<col, row>>, Double_flat_to_cube(coord))
            \/ AnswerCube("sharp_to_cube", <<col, row>>, Double_sharp_to_cube(coord))

\* the Cubes a call handed back
Held(c) ==
    CASE c.tag = "Cube" -> {c.ret}
      [] c.tag = "Vec" -> Range(c.ret)
      [] c.tag = "Ok" /\ c.op = "MultiCoord::cube" -> {Cube_from_MultiCoord(c.ret)}
      [] c.tag = "Ok" /\ c.op # "MultiCoord::cube" -> {c.ret}
      [] OTHER -> {}

\* the caller goes on with a Cube that came back, or with the one it held
Take ==
    /\ pc = "returned"
    /\ \E c \in Held(call) \cup {cur} :
         /\ InBox(c)
         /\ cur' = c
    /\ call' = NoCall
    /\ pc' = "ready"
    /\ UNCHANGED <<grid, pre, last>>

CubeNext ==
    \/ FromCoords \/ MultiCube \/ SetCoords
    \/ AddCube \/ SubCube \/ MulCube \/ DivCube \/ DivAxial
    \/ Neighbor \/ Neighbors \/ Diagonal \/ Diagonals \/ Dist
    \/ RotateCw \/ RotateCc \/ Ring \/ Spiral
    \/ FromAxial \/ ToAxial \/ FromTriple \/ FromOffset \/ FromDouble
    \/ Take

CubeSpec == CubeInit /\ [][CubeNext]_vars

(***************************************************************************)
(* The coordinate program: a caller holding one MultiCoord `cur`.  It      *)
(* builds coordinates of the four systems, converts the MultiCoord out     *)
(* again and calls the methods of the Offset or Double it encodes; `call`  *)
(* records the last call, and the caller goes on with a coordinate that    *)
(* came back or with the one it held.                                      *)
(***************************************************************************)
\* the Offsets passed as the second operand
OtherOffsets == {Offset_from_coords(col, row) : col, row \in Ints(MaxArg)}

\* the Doubles passed as the second operand: the valid ones within MaxArg
OtherDoubles ==
    {Double_from_coords(col, row).double :
        <<col, row>> \in {t \in Ints(MaxArg) \X Ints(MaxArg) :
                             Double_from_coords(t[1], t[2]).tag = "Ok"}}

CoordInBox(m) ==
    /\ Abs(m.a) <= MaxCoord
    /\ Abs(m.b) <= MaxCoord
    /\ m.c # <<>> => Abs(m.c[1]) <= MaxCoord

CoordInit ==
    /\ grid = HexGrid_default
    /\ pre = HexGrid_default
    /\ last = Call("none", <<>>, FALSE, "Unit")
    /\ pc = "ready"
    /\ cur = MultiCoord_offset(0, 0)
    /\ call = NoCall

\* a call whose return type is a Result
AnswerMade(op, args, made, field) ==
    Answer(op, args, made.tag, IF made.tag = "Ok" THEN made[field] ELSE made.msg)

MakeOffset ==
    /\ pc = "ready"
    /\ \E col, row \in Ints(MaxArg) :
         Answer("MultiCoord::offset", <<col, row>>, "MultiCoord",
                MultiCoord_offset(col, row))

MakeAxial ==
    /\ pc = "ready"
    /\ \E q, r \in Ints(MaxArg) :
         Answer("MultiCoord::axial", <<q, r>>, "MultiCoord", MultiCoord_axial(q, r))

MakeCube ==
    /\ pc = "ready"
    /\ \E x, y, z \in Ints(MaxArg) :
         AnswerMade("MultiCoord::cube", <<x, y, z>>, MultiCoord_cube(x, y, z), "coord")

MakeDouble ==
    /\ pc = "ready"
    /\ \E col, row \in Ints(MaxArg) :
         \/ AnswerMade("MultiCoord::double", <<col, row>>,
                       MultiCoord_double(col, row), "coord")
         \/ AnswerMade("Double::from_coords", <<col, row>>,
                       Double_from_coords(col, row), "double")
         \/ AnswerMade("Double::from_tuple", <<col, row>>,
                       Double_from_tuple(<<col, row>>), "double")
         \/ Answer("Double::from", <<col, row>>,
                   IF Panicked(Double_from_tuple2(<<col, row>>))
                   THEN "Panic" ELSE "Double",
                   Double_from_tuple2(<<col, row>>))

\* to_axial, to_cube, to_double and to_offset of the MultiCoord in hand
ConvertOut ==
    /\ pc = "ready"
    /\ \/ Answer("to_axial", <<>>, MultiCoord_to_axial(cur).tag,
                 MultiCoord_to_axial(cur).ret)
       \/ Answer("to_cube", <<>>, MultiCoord_to_cube(cur).tag,
                 MultiCoord_to_cube(cur).ret)
       \/ Answer("to_double", <<>>, MultiCoord_to_double(cur).tag,
                 MultiCoord_to_double(cur).ret)
       \/ Answer("to_offset", <<>>, MultiCoord_to_offset(cur).tag,
                 MultiCoord_to_offset(cur).ret)

OffsetNeighbors ==
    /\ pc = "ready"
    /\ cur.sys = "Offset"
    /\ LET self == Offset_from_MultiCoord(cur)
       IN \/ Answer("oflat_neighbors", <<>>, "Offsets", Offset_oflat_neighbors(self))
          \/ Answer("eflat_neighbors", <<>>, "Offsets", Offset_eflat_neighbors(self))
          \/ Answer("osharp_neighbors", <<>>, "Offsets", Offset_osharp_neighbors(self))
          \/ Answer("esharp_neighbors", <<>>, "Offsets", Offset_esharp_neighbors(self))

OffsetToCube ==
    /\ pc = "ready"
    /\ cur.sys = "Offset"
    /\ LET self == Offset_from_MultiCoord(cur)
       IN \/ AnswerCube("oflat_to_cube", <<>>, Offset_oflat_to_cube(self))
          \/ AnswerCube("eflat_to_cube", <<>>, Offset_eflat_to_cube(self))
          \/ AnswerCube("osharp_to_cube", <<>>, Offset_osharp_to_cube(self))
          \/ AnswerCube("esharp_to_cube", <<>>, Offset_esharp_to_cube(self))

OffsetDist ==
    /\ pc = "ready"
    /\ cur.sys = "Offset"
    /\ \E other \in OtherOffsets :
         Answer("Offset::dist", <<other>>, "Int",
                Offset_dist(Offset_from_MultiCoord(cur), other))

DoubleArith ==
    /\ pc = "ready"
    /\ cur.sys = "Double"
    /\ LET self == Double_from_MultiCoord(cur)
       IN \/ \E other \in OtherDoubles :
               Answer("Double::add", <<other>>, "Double", Double_add(self, other))
          \/ \E other \in OtherDoubles :
               Answer("Double::sub", <<other>>, "Double", Double_sub(self, other))
          \/ \E n \in Ints(MaxScalar) :
               Answer("Double::mul", <<n>>, "Double", Double_mul(self, n))

DoubleNeighbors ==
    /\ pc = "ready"
    /\ cur.sys = "Double"
    /\ LET self == Double_from_MultiCoord(cur)
       IN \/ Answer("flat_neighbors", <<>>, "Doubles", Double_flat_neighbors(self))
          \/ Answer("sharp_neighbors", <<>>, "Doubles", Double_sharp_neighbors(self))

DoubleToCube ==
    /\ pc = "ready"
    /\ cur.sys = "Double"
    /\ LET self == Double_from_MultiCoord(cur)
       IN \/ AnswerCube("flat_to_cube", <<>>, Double_flat_to_cube(self))
          \/ AnswerCube("sharp_to_cube", <<>>, Double_sharp_to_cube(self))

DoubleDist ==
    /\ pc = "ready"
    /\ cur.sys = "Double"
    /\ \E other \in OtherDoubles :
         LET self == Double_from_MultiCoord(cur)
         IN \/ Answer("flat_dist", <<other>>, "Int", Double_flat_dist(self, other))
            \/ Answer("sharp_dist", <<other>>, "Int", Double_sharp_dist(self, other))

\* the MultiCoords of the coordinates a call handed back
Wrapped(c) ==
    CASE c.tag = "MultiCoord" -> {c.ret}
      [] c.tag = "Ok" /\ c.op \in {"MultiCoord::cube", "MultiCoord::double"} -> {c.ret}
      [] c.tag = "Ok" /\ c.op \in {"Double::from_coords", "Double::from_tuple",
                                  "to_double"} -> {MultiCoord_from_Double(c.ret)}
      [] c.tag = "Ok" /\ c.op = "to_offset" -> {MultiCoord_from_Offset(c.ret)}
      [] c.tag = "Ok" /\ c.op = "to_axial" -> {MultiCoord_from_Axial(c.ret)}
      [] c.tag = "Ok" /\ c.op = "to_cube" -> {MultiCoord_from_Cube(c.ret)}
      [] c.tag = "Double" -> {MultiCoord_from_Double(c.ret)}
      [] c.tag = "Doubles" -> {MultiCoord_from_Double(d) : d \in Range(c.ret)}
      [] c.tag = "Offsets" -> {MultiCoord_from_Offset(o) : o \in Range(c.ret)}
      [] c.tag = "Cube" -> {MultiCoord_from_Cube(c.ret)}
      [] OTHER -> {}

\* the caller goes on with a coordinate that came back, or with the one it
\* held
CoordTake ==
    /\ pc = "returned"
    /\ \E m \in Wrapped(call) \cup {cur} :
         /\ CoordInBox(m)
         /\ cur' = m
    /\ call' = NoCall
    /\ pc' = "ready"
    /\ UNCHANGED <<grid, pre, last>>

CoordNext ==
    \/ MakeOffset \/ MakeAxial \/ MakeCube \/ MakeDouble
    \/ ConvertOut
    \/ OffsetNeighbors \/ OffsetToCube \/ OffsetDist
    \/ DoubleArith \/ DoubleNeighbors \/ DoubleToCube \/ DoubleDist
    \/ CoordTake

CoordSpec == CoordInit /\ [][CoordNext]_vars

(***************************************************************************)
(* Properties.                                                             *)
(***************************************************************************)
NodeIndices(g) == 0..(Len(g.nodes) - 1)

Occupied(g) == DOMAIN g.map

\* some edge, in either direction, joins the nodes of c and n
EdgeBetween(g, c, n) ==
    /\ c \in Occupied(g)
    /\ n \in Occupied(g)
    /\ \E e \in Range(g.edges) :
         \/ e.source = g.map[c] /\ e.target = g.map[n]
         \/ e.source = g.map[n] /\ e.target = g.map[c]

\* C1: for every occupied coordinate c and each of its six neighbors n, an
\* edge between the node of c and the node of n exists iff n is occupied.
C1_NeighborEdgeIffOccupied ==
    \A c \in Occupied(grid) : \A i \in 0..5 :
        EdgeBetween(grid, c, Cube_neighbor(c, i))
            <=> Cube_neighbor(c, i) \in Occupied(grid)

\* C2: the index and the graph agree: every key maps to a live node, no two
\* keys map to the same node, and every node of the graph is the image of a
\* key.
C2_IndexGraphAgree ==
    /\ \A k \in Occupied(grid) : grid.map[k] \in NodeIndices(grid)
    /\ \A k1 \in Occupied(grid) : \A k2 \in Occupied(grid) :
         grid.map[k1] = grid.map[k2] => k1 = k2
    /\ \A n \in NodeIndices(grid) : \E k \in Occupied(grid) : grid.map[k] = n

\* C2 witness: a grid built by two insertions, the second through set
C2_TwoInserted ==
    /\ last.op = "set"
    /\ last.ret = "Unit"
    /\ Cardinality(Occupied(grid)) = 2
    /\ Len(grid.nodes) = 2

\* the nodes, the edges and the index of two grids are the same
SameStore(g, h) == g.nodes = h.nodes /\ g.edges = h.edges /\ g.map = h.map

\* C3: add on an occupied coordinate and update on an absent one return an
\* error value to the caller and leave the grid (the index, every stored
\* value, hence what get sees at that coordinate, and the edges) as it was.
C3_FailedCallChangesNothing ==
    (\/ last.op = "add" /\ last.hit
     \/ last.op = "update" /\ ~last.hit)
    => /\ last.ret = "Err"
       /\ pc = "live"
       /\ SameStore(grid, pre)
       /\ \A coord \in Keys : HexGrid_get(grid, coord) = HexGrid_get(pre, coord)

\* C3 witness: add was refused on a grid that holds two values
C3_AddRefused ==
    /\ last.op = "add"
    /\ last.hit
    /\ last.ret = "Err"
    /\ Cardinality(Occupied(grid)) = 2

\* the values get returns at every key other than the slot of coord
OthersKept(g, h, coord) ==
    \A other \in Keys :
        HexGrid_cube_from(g, other) # HexGrid_cube_from(g, coord)
            => HexGrid_get(h, other) = HexGrid_get(g, other)

\* C4: update(c, v) on an occupied c returns Ok, makes get(c) return v and
\* leaves the occupied set, the edges with their labels and the values at
\* every other coordinate as they were.
C4_UpdateOverwrites ==
    [][\A coord \in Keys : \A data \in Data :
          (UpdateCall(coord, data) /\ HexGrid_contains_coord(grid, coord))
          => /\ last'.ret = "Ok"
             /\ HexGrid_get(grid', coord) = <<data>>
             /\ Occupied(grid') = Occupied(grid)
             /\ grid'.edges = grid.edges
             /\ OthersKept(grid, grid', coord)]_vars

\* C5: set(c, v) always completes, whether c was absent or occupied:
\* afterwards c is occupied, get(c) returns v, and the occupancy and value
\* of every other coordinate are unchanged.
C5_SetUpserts ==
    [][\A coord \in Keys : \A data \in Data :
          SetCall(coord, data)
          => /\ last'.ret = "Unit"
             /\ HexGrid_contains_coord(grid', coord)
             /\ HexGrid_get(grid', coord) = <<data>>
             /\ Occupied(grid') \ {HexGrid_cube_from(grid, coord)}
                    = Occupied(grid) \ {HexGrid_cube_from(grid, coord)}
             /\ OthersKept(grid, grid', coord)]_vars

\* C6: remove(c) on an occupied c returns to the caller, after which c is
\* not contained, the index has no entry for c and no edge has the removed
\* node as an endpoint; remove on an absent c returns and changes nothing.
C6_RemoveEvicts ==
    [][\A coord \in Keys :
          RemoveCall(coord)
          => /\ last'.ret # "Panic"
             /\ ~HexGrid_contains_coord(grid', coord)
             /\ HexGrid_cube_from(grid, coord) \notin Occupied(grid')
             /\ IF HexGrid_contains_coord(grid, coord)
                THEN \A e \in Range(grid'.edges) :
                        /\ e.source # grid.map[HexGrid_cube_from(grid, coord)]
                        /\ e.target # grid.map[HexGrid_cube_from(grid, coord)]
                ELSE SameStore(grid', grid)]_vars

\* every coordinate of ORIGIN.spiral(r) holds v and every coordinate of
\* ORIGIN.ring(r + 1) is absent
RadialFill(g, r, v) ==
    /\ \A c \in Range(Cube_spiral(Cube_ORIGIN, r)) :
         /\ HexGrid_contains_coord(g, MultiCoord_from_Cube(c))
         /\ HexGrid_get(g, MultiCoord_from_Cube(c)) = <<v>>
    /\ \A c \in Range(Cube_ring(Cube_ORIGIN, r + 1)) :
         /\ ~HexGrid_contains_coord(g, MultiCoord_from_Cube(c))
         /\ HexGrid_get(g, MultiCoord_from_Cube(c)) = <<>>

C8_BoxyColumnsThenRows ==
    last.op = "new_boxy"
    => LET a == last.args[1]
           b == last.args[2]
       IN /\ last.ret = "Unit"
          /\ \A col \in 0..(a - 1) : \A row \in 0..(b - 1) :
               HexGrid_contains_coord(grid, MultiCoord_offset(col, row))
          /\ \A col \in (-1)..a : \A row \in (-1)..b :
               (col \in {-1, a} \/ row \in {-1, b})
                   => ~HexGrid_contains_coord(grid, MultiCoord_offset(col, row))

\* C9: a grid made by the rectangular factory has tilt = Flat, parity = Odd
\* and preferred system = Offset, and a grid made by the radial factory has
\* preferred system = Cube.
C9_FactoryConfiguration ==
    /\ last.op = "new_boxy"
         => grid.tilt = "Flat" /\ grid.parity = "Odd" /\ grid.sys = "Offset"
    /\ last.op = "new_radial" => grid.sys = "Cube"

RECURSIVE SlotDirection(_)
\* the compass direction of neighbor slot i: slot 0 is Northeast, each
\* following slot the next direction clockwise
SlotDirection(i) ==
    IF i = 0 THEN "Northeast" ELSE Compass_next_cw(SlotDirection(i - 1))

\* the edges a call added
NewEdges(before, after) ==
    {after.edges[k] : k \in (Len(before.edges) + 1)..Len(after.edges)}

\* C10: after a coordinate c is inserted, for every neighbor slot i whose
\* coordinate c.neighbor(i) is occupied, the edge from c to that neighbor is
\* labeled with the compass direction of slot i and the edge from the
\* neighbor back to c with the opposite direction.
C10_LinkLabels ==
    [][\A coord \in Keys : \A data \in Data :
          (~HexGrid_contains_coord(grid, coord) /\ SetCall(coord, data))
          => LET c == HexGrid_cube_from(grid, coord)
             IN \A i \in 0..5 :
                  Cube_neighbor(c, i) \in Occupied(grid)
                  => /\ \E e \in NewEdges(grid, grid') :
                          /\ e.source = grid'.map[c]
                          /\ e.target = grid'.map[Cube_neighbor(c, i)]
                          /\ e.weight = SlotDirection(i)
                     /\ \E e \in NewEdges(grid, grid') :
                          /\ e.source = grid'.map[Cube_neighbor(c, i)]
                          /\ e.target = grid'.map[c]
                          /\ e.weight = Compass_inverse(SlotDirection(i))]_vars

(***************************************************************************)
(* Properties of the Cube program.                                         *)
(***************************************************************************)
CubeSum(c) == c[1] + c[2] + c[3]

\* C11: Cube::from_coords(x, y, z) and from_tuple (and MultiCoord::cube on
\* top of them) return Ok carrying exactly (x, y, z) if and only if
\* x + y + z = 0 and an error value otherwise; an invalid triple is never
\* corrected into a valid Cube.
C11_FromCoordsValidates ==
    LET x == call.args[1]
        y == call.args[2]
        z == call.args[3]
    IN /\ call.op \in {"from_coords", "from_tuple"}
          => /\ call.tag \in {"Ok", "Err"}
             /\ (call.tag = "Ok") <=> (x + y + z = 0)
             /\ call.tag = "Ok" => call.ret = <<x, y, z>>
       /\ call.op = "MultiCoord::cube"
          => /\ call.tag \in {"Ok", "Err"}
             /\ (call.tag = "Ok") <=> (x + y + z = 0)
             /\ call.tag = "Ok"
                => call.ret = [sys |-> "Cube", a |-> x, b |-> y, c |-> <<z>>]

\* C11 witness: from_coords was handed a triple that does not sum to zero
\* and answered Err
C11_InvalidRefused ==
    /\ call.op = "from_coords"
    /\ CubeSum(call.args) # 0
    /\ call.tag = "Err"

\* C12: every Cube obtainable through the public interface satisfies
\* x + y + z = 0: the Cube the caller holds and every Cube an operation
\* hands back has zero component sum.
C12_CubeSumZero ==
    /\ CubeSum(cur) = 0
    /\ \A c \in Held(call) : CubeSum(c) = 0

\* |q| is the largest magnitude with |q * n| <= |a|, and q * n has the sign
\* of a: q is a / n truncated toward zero
Truncated(q, a, n) ==
    /\ Abs(q * n) <= Abs(a)
    /\ Abs(a - q * n) < Abs(n)

Quotients(op, self, n, ret) ==
    IF op = "div"
    THEN \A i \in 1..3 : Truncated(ret[i], self[i], n)
    ELSE /\ Truncated(ret.q, self[1], n)
         /\ Truncated(ret.r, self[3], n)

\* C13 as stated: dividing a Cube (or Axial) by the scalar 0 returns a
\* recoverable error value to the caller, not a program termination;
\* dividing by a non-zero scalar divides each component truncating toward
\* zero.
C13_DivByZeroIsError ==
    call.op \in {"div", "Axial::div"}
    => LET n == call.args[1]
       IN /\ n = 0 => call.tag = "Err"
          /\ n # 0 => /\ call.tag \in {"Cube", "Axial"}
                      /\ Quotients(call.op, call.self, n, call.ret)

\* C13 amended: dividing a Cube (or Axial) by the scalar 0 panics; dividing
\* by a non-zero scalar returns the coordinate of the component quotients,
\* each truncated toward zero.
C13_DivByZeroPanics ==
    call.op \in {"div", "Axial::div"}
    => LET n == call.args[1]
       IN /\ n = 0 => call.tag = "Panic"
          /\ n # 0 => /\ call.tag \in {"Cube", "Axial"}
                      /\ Quotients(call.op, call.self, n, call.ret)

\* C13 witness: a Cube with a negative odd component was divided by zero
C13_DividedByZero ==
    /\ call.op = "div"
    /\ call.args[1] = 0
    /\ \E i \in 1..3 : call.self[i] = 0 - 1
    /\ pc = "panicked"

\* the six unit steps, clockwise from Northeast
UnitSteps ==
    << <<1, 0, -1>>, <<1, -1, 0>>, <<0, -1, 1>>,
       <<-1, 0, 1>>, <<-1, 1, 0>>, <<0, 1, -1>> >>

\* the six diagonal steps, clockwise from Southeast
DiagonalSteps ==
    << <<1, -2, 1>>, <<-1, -1, 2>>, <<-2, 1, 1>>,
       <<-1, 2, -1>>, <<1, 1, -2>>, <<2, -1, -1>> >>

Plus(c, v) == <<c[1] + v[1], c[2] + v[2], c[3] + v[3]>>

Times(k, v) == <<k * v[1], k * v[2], k * v[3]>>

\* C14: for every Cube c and index i >= 0, c.neighbor(i) = c + N[i mod 6]
\* and c.diagonal(i) = c + D[i mod 6], N being the unit steps clockwise from
\* Northeast and D the diagonal steps clockwise from Southeast; neighbors()
\* and diagonals() return the entries for i = 0..5 in that order.
C14_NeighborDiagonalTables ==
    /\ call.op = "neighbor"
       => call.ret = Plus(call.self, UnitSteps[(call.args[1] % 6) + 1])
    /\ call.op = "diagonal"
       => call.ret = Plus(call.self, DiagonalSteps[(call.args[1] % 6) + 1])
    /\ call.op = "neighbors"
       => call.ret = [k \in 1..6 |-> Plus(call.self, UnitSteps[k])]
    /\ call.op = "diagonals"
       => call.ret = [k \in 1..6 |-> Plus(call.self, DiagonalSteps[k])]

\* C14 witness: neighbor was called away from the origin with an index that
\* wraps
C14_NeighborWrapped ==
    /\ call.op = "neighbor"
    /\ call.args[1] > 5
    /\ call.self # Cube_ORIGIN
    /\ call.tag = "Cube"

\* C15: for every Cube c and index i in 0..5,
\* c.neighbor(i).neighbor((i + 3) mod 6) = c.
C15_OppositeNeighborReturns ==
    (call.op = "neighbor" /\ call.args[1] <= 5)
    => Cube_neighbor(call.ret, (call.args[1] + 3) % 6) = call.self

\* C15 witness: the neighbor in direction 4, whose opposite wraps to
\* direction 1, was taken
C15_SteppedWest ==
    /\ call.op = "neighbor"
    /\ call.args[1] = 4
    /\ call.ret # call.self

\* C16: dist is a metric: dist(a, b) is the largest of |dx|, |dy|, |dz|, it
\* is symmetric, it is zero exactly when a = b, and
\* dist(a, b) <= dist(a, c) + dist(c, b) for any third coordinate c.
C16_DistIsMetric ==
    call.op = "dist"
    => LET a == call.self
           b == call.args[1]
           d == call.ret
           gaps == {Abs(a[i] - b[i]) : i \in 1..3}
       IN /\ d \in gaps
          /\ \A g \in gaps : g <= d
          /\ Cube_dist(b, a) = d
          /\ (d = 0) <=> (a = b)
          /\ \A third \in Others :
                d <= Cube_dist(a, third) + Cube_dist(third, b)

\* C16 witness: a distance decided by the z axis alone was measured
C16_MeasuredAlongZ ==
    /\ call.op = "dist"
    /\ call.ret >= 2
    /\ Abs(call.self[1] - call.args[1][1]) < call.ret
    /\ Abs(call.self[2] - call.args[1][2]) < call.ret

Minus(c, v) == <<c[1] - v[1], c[2] - v[2], c[3] - v[3]>>

\* v turned clockwise by k sixths of a turn, one sixth mapping (x, y, z) to
\* (-z, -x, -y); a counter-clockwise sixth, (x, y, z) to (-y, -z, -x), is
\* five clockwise ones
Turned(v, k) ==
    CASE k = 0 -> v
      [] k = 1 -> <<0 - v[3], 0 - v[1], 0 - v[2]>>
      [] k = 2 -> <<v[2], v[3], v[1]>>
      [] k = 3 -> <<0 - v[1], 0 - v[2], 0 - v[3]>>
      [] k = 4 -> <<v[3], v[1], v[2]>>
      [] k = 5 -> <<0 - v[2], 0 - v[3], 0 - v[1]>>

\* C17 as stated: c.rotate_cw(pivot, t) moves the receiver c about the
\* argument: the result is pivot + R^(t mod 6)(c - pivot), R mapping
\* (x, y, z) to (-z, -x, -y); rotate_cc is the same with the
\* counter-clockwise step. Only t mod 6 matters.
C17_ReceiverTurnsAboutArgument ==
    (call.op \in {"rotate_cw", "rotate_cc"} /\ CubeSum(call.self) = 0)
    => LET c == call.self
           pivot == call.args[1]
           t == call.args[2] % 6
           k == IF call.op = "rotate_cw" THEN t ELSE (6 - t) % 6
       IN /\ call.tag = "Cube"
          /\ call.ret = Plus(pivot, Turned(Minus(c, pivot), k))

\* C17 amended: c.rotate_cw(p, t) moves the argument p about the receiver
\* c: the result is c + R^(t mod 6)(p - c), R mapping (x, y, z) to
\* (-z, -x, -y); rotate_cc is the same with the counter-clockwise step
\* (x, y, z) -> (-y, -z, -x). Only t mod 6 matters.
C17_ArgumentTurnsAboutReceiver ==
    (call.op \in {"rotate_cw", "rotate_cc"} /\ CubeSum(call.self) = 0)
    => LET c == call.self
           p == call.args[1]
           t == call.args[2] % 6
           k == IF call.op = "rotate_cw" THEN t ELSE (6 - t) % 6
       IN /\ call.tag = "Cube"
          /\ call.ret = Plus(c, Turned(Minus(p, c), k))

\* C17 witness: rotate_cw was called on a valid Cube with another Cube and
\* more than six turns
C17_TurnedPastSix ==
    /\ call.op = "rotate_cw"
    /\ CubeSum(call.self) = 0
    /\ call.args[1] # call.self
    /\ call.args[2] > 6
    /\ call.tag = "Cube"

Distinct(seq) == \A i, j \in DOMAIN seq : seq[i] = seq[j] => i = j

\* the coordinates at distance exactly r from c, found by measuring every
\* candidate c + v
Circle(c, r) ==
    {w \in {Plus(c, <<x, y, 0 - x - y>>) : x, y \in Ints(r)} : Cube_dist(c, w) = r}

\* C18: c.ring(r) lists, each exactly once, precisely the coordinates at
\* distance exactly r from c: ring(0) = [c], and for r >= 1 the result has
\* 6r pairwise distinct elements, all at distance r, and every coordinate at
\* distance r from c is among them.
C18_RingIsTheCircle ==
    call.op = "ring"
    => LET c == call.self
           r == call.args[1]
       IN /\ r = 0 => call.ret = <<c>>
          /\ r >= 1 => Len(call.ret) = 6 * r
          /\ Distinct(call.ret)
          /\ Range(call.ret) = Circle(c, r)

\* C18 witness: a ring of radius 2 was taken around a Cube other than the
\* origin
C18_RingTwoAway ==
    /\ call.op = "ring"
    /\ call.args[1] = 2
    /\ call.self # Cube_ORIGIN
    /\ Len(call.ret) = 12

\* C19: for r >= 1 the order of c.ring(r) is one continuous clockwise walk:
\* element k*r is the corner c + r*N[k] for k = 0..5 (element 0 being
\* c + r*N[0]), side k is walked by steps in neighbor direction
\* (k + 2) mod 6, and every element is a neighbor of the next one, the last
\* being a neighbor of the first.
C19_RingWalk ==
    (call.op = "ring" /\ call.args[1] >= 1)
    => LET c == call.self
           r == call.args[1]
           ring == call.ret
           n == Len(ring)
       IN /\ ring[1] = Plus(c, Times(r, UnitSteps[1]))
          /\ \A k \in 0..5 :
                /\ ring[k * r + 1] = Plus(c, Times(r, UnitSteps[k + 1]))
                /\ \A j \in 1..(r - 1) :
                      ring[k * r + j + 1] =
                          Plus(ring[k * r + j], UnitSteps[((k + 2) % 6) + 1])
          /\ \A i \in 1..n :
                \E v \in Range(UnitSteps) : ring[(i % n) + 1] = Plus(ring[i], v)

\* C19 witness: a ring of radius 2, whose sides have an inner step, was
\* walked around the origin
C19_RingTwoWalked ==
    /\ call.op = "ring"
    /\ call.args[1] = 2
    /\ call.self = Cube_ORIGIN
    /\ call.ret[2] = <<2, -1, -1>>

\* the coordinates at distance at most r from c
Disc(c, r) ==
    {w \in {Plus(c, <<x, y, 0 - x - y>>) : x, y \in Ints(r)} : Cube_dist(c, w) <= r}

\* C20: c.spiral(r) is the concatenation ring(0), ring(1), ..., ring(r) in
\* that order: it starts with c, has 1 + 3r(r+1) elements, contains no
\* coordinate twice, and contains exactly the coordinates at distance <= r
\* from c.
C20_SpiralIsRingsInOrder ==
    call.op = "spiral"
    => LET c == call.self
           r == call.args[1]
           spiral == call.ret
       IN /\ Len(spiral) = 1 + 3 * r * (r + 1)
          /\ spiral[1] = c
          /\ \A k \in 0..r :
                SubSeq(spiral, 1 + 3 * k * (k - 1) + (IF k = 0 THEN 0 ELSE 1),
                       1 + 3 * k * (k + 1)) = Cube_ring(c, k)
          /\ Distinct(spiral)
          /\ Range(spiral) = Disc(c, r)

\* C20 witness: a spiral of radius 2, nineteen coordinates, was returned
C20_SpiralTwoReturned ==
    /\ call.op = "spiral"
    /\ call.args[1] = 2
    /\ Len(call.ret) = 19

\* C21: Axial and Cube convert into each other without loss:
\* Axial::from(Cube::from(a)) = a for every Axial a, and
\* Cube::from(Axial::from(c)) = c for every valid Cube c, with q = x, r = z
\* and y = -q - r.
C21_AxialCubeRoundTrip ==
    /\ call.op = "from_Axial"
       => LET a == Axial_from_coords(call.args[1], call.args[2])
          IN /\ call.tag = "Cube"
             /\ call.ret = <<a.q, 0 - a.q - a.r, a.r>>
             /\ Axial_from_Cube(call.ret) = a
    /\ (call.op = "Axial::from" /\ CubeSum(call.self) = 0)
       => /\ call.tag = "Axial"
          /\ call.ret.q = call.self[1]
          /\ call.ret.r = call.self[3]
          /\ Cube_from_Axial(call.ret) = call.self

\* C21 witness: a valid Cube with three different components was converted
\* to Axial
C21_SkewCubeConverted ==
    /\ call.op = "Axial::from"
    /\ CubeSum(call.self) = 0
    /\ call.self[2] # call.self[3]
    /\ call.self[1] # call.self[2]
    /\ call.tag = "Axial"

\* C27: the conversion of a triple and set_coords both derive the third
\* component: for all x, y and whatever z is supplied, Cube::from((x, y, z))
\* and set_coords(x, y, z) produce the Cube (x, y, -x - y).
C27_ThirdComponentDerived ==
    call.op \in {"Cube::from", "set_coords"}
    => /\ call.tag = "Cube"
       /\ call.ret = <<call.args[1], call.args[2], 0 - call.args[1] - call.args[2]>>

\* C28: rotate_cc undoes rotate_cw and the other way round: for valid Cubes
\* a, b and every t, a.rotate_cc(a.rotate_cw(b, t), t) = b and
\* a.rotate_cw(a.rotate_cc(b, t), t) = b.
C28_RotationsUndoEachOther ==
    /\ (call.op = "rotate_cw" /\ CubeSum(call.self) = 0)
       => /\ call.tag = "Cube"
          /\ Cube_rotate_cc(call.self, call.ret, call.args[2]) = call.args[1]
    /\ (call.op = "rotate_cc" /\ CubeSum(call.self) = 0)
       => /\ call.tag = "Cube"
          /\ Cube_rotate_cw(call.self, call.ret, call.args[2]) = call.args[1]

\* C28 witness: a valid Cube turned another Cube by five steps clockwise
C28_FiveTurns ==
    /\ call.op = "rotate_cw"
    /\ CubeSum(call.self) = 0
    /\ call.args[1] # call.self
    /\ call.args[2] = 5
    /\ call.tag = "Cube"
    /\ call.ret # call.args[1]

\* the keys whose node is n
KeysOf(g, n) == {k \in Occupied(g) : g.map[k] = n}

\* C29: in every reachable grid every edge joins two distinct occupied nodes
\* whose Cubes are at distance exactly 1 (no self-loops, no edge between
\* non-neighbors), and each ordered pair of nodes carries at most one edge.
C29_EdgesJoinNeighbors ==
    /\ \A e \in Range(grid.edges) :
         /\ e.source # e.target
         /\ \E a \in KeysOf(grid, e.source) : \E b \in KeysOf(grid, e.target) :
              Cube_dist(a, b) = 1
    /\ \A i, j \in DOMAIN grid.edges :
         (/\ grid.edges[i].source = grid.edges[j].source
          /\ grid.edges[i].target = grid.edges[j].target) => i = j

(***************************************************************************)
(* Properties of the coordinate program.                                   *)
(***************************************************************************)
\* entry i, counted from 0, of a returned list
Entry(list, i) == list[i + 1]

\* every entry of an Offset neighbor list converts to the same-numbered
\* Cube neighbor of the converted receiver
OflatAgrees ==
    call.op = "oflat_neighbors"
    => \A i \in 0..5 :
         Offset_oflat_to_cube(Entry(call.ret, i))
             = Cube_neighbor(Offset_oflat_to_cube(Offset_from_MultiCoord(call.self)), i)

EflatAgrees ==
    call.op = "eflat_neighbors"
    => \A i \in 0..5 :
         Offset_eflat_to_cube(Entry(call.ret, i))
             = Cube_neighbor(Offset_eflat_to_cube(Offset_from_MultiCoord(call.self)), i)

OsharpAgrees ==
    call.op = "osharp_neighbors"
    => \A i \in 0..5 :
         Offset_osharp_to_cube(Entry(call.ret, i))
             = Cube_neighbor(Offset_osharp_to_cube(Offset_from_MultiCoord(call.self)), i)

EsharpAgrees ==
    call.op = "esharp_neighbors"
    => \A i \in 0..5 :
         Offset_esharp_to_cube(Entry(call.ret, i))
             = Cube_neighbor(Offset_esharp_to_cube(Offset_from_MultiCoord(call.self)), i)

\* C22: the Offset neighbor lists agree with Cube neighbors under each of
\* the four (Tilt, Parity) combinations: for every Offset o, negative and
\* odd columns and rows included, and i in 0..5, the i-th entry of
\* o.oflat_neighbors() (eflat, osharp, esharp) converted with the matching
\* conversion is (o converted).neighbor(i).
C22_OffsetNeighborsAgree ==
    OflatAgrees /\ EflatAgrees /\ OsharpAgrees /\ EsharpAgrees

\* C22 witness: the neighbors of an Offset in a negative odd row and a
\* negative odd column were listed
C22_NegativeOddListed ==
    /\ call.op \in {"oflat_neighbors", "osharp_neighbors"}
    /\ call.self.a = -1
    /\ call.self.b = -1
    /\ Len(call.ret) = 6

FlatDoubleAgrees ==
    call.op = "flat_neighbors"
    => \A i \in 0..5 :
         Double_flat_to_cube(Entry(call.ret, i))
             = Cube_neighbor(Double_flat_to_cube(Double_from_MultiCoord(call.self)), i)

SharpDoubleAgrees ==
    call.op = "sharp_neighbors"
    => \A i \in 0..5 :
         Double_sharp_to_cube(Entry(call.ret, i))
             = Cube_neighbor(Double_sharp_to_cube(Double_from_MultiCoord(call.self)), i)

\* C23: the Double neighbor lists agree with Cube neighbors: for every valid
\* Double d and i in 0..5, flat_to_cube(d.flat_neighbors()[i]) =
\* flat_to_cube(d).neighbor(i) and sharp_to_cube(d.sharp_neighbors()[i]) =
\* sharp_to_cube(d).neighbor(i).
C23_DoubleNeighborsAgree == FlatDoubleAgrees /\ SharpDoubleAgrees

FlatDistAgrees ==
    call.op = "flat_dist"
    => call.ret = Cube_dist(Double_flat_to_cube(Double_from_MultiCoord(call.self)),
                            Double_flat_to_cube(call.args[1]))

SharpDistAgrees ==
    call.op = "sharp_dist"
    => call.ret = Cube_dist(Double_sharp_to_cube(Double_from_MultiCoord(call.self)),
                            Double_sharp_to_cube(call.args[1]))

OffsetDistAgrees ==
    call.op = "Offset::dist"
    => LET a == Offset_from_MultiCoord(call.self)
           b == call.args[1]
       IN /\ call.ret = Cube_dist(Offset_oflat_to_cube(a), Offset_oflat_to_cube(b))
          /\ call.ret = Cube_dist(Offset_eflat_to_cube(a), Offset_eflat_to_cube(b))
          /\ call.ret = Cube_dist(Offset_osharp_to_cube(a), Offset_osharp_to_cube(b))
          /\ call.ret = Cube_dist(Offset_esharp_to_cube(a), Offset_esharp_to_cube(b))

\* C24: a distance taken in Double or Offset coordinates is the Cube
\* distance of the converted ends: a.flat_dist(b) and a.sharp_dist(b) for
\* valid Doubles under flat_to_cube and sharp_to_cube, and a.dist(b) for
\* Offsets under each of the four (Tilt, Parity) conversions.
C24_DistancesAgree == FlatDistAgrees /\ SharpDistAgrees /\ OffsetDistAgrees

EvenSum(d) == (d.col + d.row) % 2 = 0

\* C25: every Double has an even col + row: from_coords and from_tuple
\* return Ok exactly when col + row is even and an error otherwise, and
\* addition, subtraction, scalar multiplication, flat_neighbors and
\* sharp_neighbors of valid Doubles yield only Doubles with an even sum.
C25_DoubleSumEven ==
    /\ cur.sys = "Double" => EvenSum(Double_from_MultiCoord(cur))
    /\ call.op \in {"Double::from_coords", "Double::from_tuple"}
       => IF (call.args[1] + call.args[2]) % 2 = 0
          THEN /\ call.tag = "Ok"
               /\ call.ret = [col |-> call.args[1], row |-> call.args[2]]
          ELSE call.tag = "Err"
    /\ call.op \in {"Double::add", "Double::sub", "Double::mul"}
       => call.tag = "Double" /\ EvenSum(call.ret)
    /\ call.op \in {"flat_neighbors", "sharp_neighbors"}
       => /\ Len(call.ret) = 6
          /\ \A i \in 0..5 : EvenSum(Entry(call.ret, i))

\* C25 witness: a Double off the origin was multiplied by an odd scalar
C25_OddMultiple ==
    /\ call.op = "Double::mul"
    /\ call.self.a % 2 = 1
    /\ call.args[1] % 2 = 1
    /\ call.tag = "Double"

\* C26: conversion out of a MultiCoord is partial and never crashes:
\* to_axial and to_cube return Ok exactly when the tag is Axial or Cube,
\* to_double exactly when it is Double, to_offset exactly when it is Offset,
\* and an error value otherwise; an Ok result denotes the same hex.
C26_ConversionOutPartial ==
    /\ call.op \in {"to_axial", "to_cube", "to_double", "to_offset"}
       => call.tag \in {"Ok", "Err"}
    /\ call.op \in {"to_axial", "to_cube"}
       => (call.tag = "Ok" <=> call.self.sys \in {"Axial", "Cube"})
    /\ call.op = "to_double" => (call.tag = "Ok" <=> call.self.sys = "Double")
    /\ call.op = "to_offset" => (call.tag = "Ok" <=> call.self.sys = "Offset")
    /\ (call.op = "to_axial" /\ call.self.sys = "Axial")
       => call.ret = [q |-> call.self.a, r |-> call.self.b]
    /\ (call.op = "to_axial" /\ call.self.sys = "Cube")
       => call.ret = [q |-> call.self.a, r |-> 0 - call.self.a - call.self.b]
    /\ (call.op = "to_cube" /\ call.self.sys = "Axial")
       => call.ret = <<call.self.a, 0 - call.self.a - call.self.b, call.self.b>>
    /\ (call.op = "to_cube" /\ call.self.sys = "Cube")
       => call.ret = <<call.self.a, call.self.b, 0 - call.self.a - call.self.b>>
    /\ (call.op \in {"to_double", "to_offset"} /\ call.tag = "Ok")
       => call.ret = [col |-> call.self.a, row |-> call.self.b]

\* C26 witness: to_axial was called on a MultiCoord built from a Cube off
\* the origin
C26_CubeToAxial ==
    /\ call.op = "to_axial"
    /\ call.self.sys = "Cube"
    /\ call.self.a # 0
    /\ call.self.b # 0
    /\ call.tag = "Ok"

\* the Offsets and the valid Doubles a key can be, one step beyond the box
KeyOffsets == {Offset_from_coords(col, row) : col, row \in Ints(MaxCoord + 1)}

KeyDoubles == {d \in KeyOffsets : EvenSum(d)}

\* C30: key normalization is injective within each coordinate system: under
\* each of the four (Tilt, Parity) conversions distinct Offsets convert to
\* distinct Cubes, and under each Tilt distinct valid Doubles convert to
\* distinct Cubes.
C30_ConversionsInjective ==
    /\ call.op = "oflat_to_cube"
       => \A o \in KeyOffsets :
            Offset_oflat_to_cube(o) = call.ret => o = Offset_from_MultiCoord(call.self)
    /\ call.op = "eflat_to_cube"
       => \A o \in KeyOffsets :
            Offset_eflat_to_cube(o) = call.ret => o = Offset_from_MultiCoord(call.self)
    /\ call.op = "osharp_to_cube"
       => \A o \in KeyOffsets :
            Offset_osharp_to_cube(o) = call.ret => o = Offset_from_MultiCoord(call.self)
    /\ call.op = "esharp_to_cube"
       => \A o \in KeyOffsets :
            Offset_esharp_to_cube(o) = call.ret => o = Offset_from_MultiCoord(call.self)
    /\ call.op = "flat_to_cube"
       => \A d \in KeyDoubles :
            Double_flat_to_cube(d) = call.ret => d = Double_from_MultiCoord(call.self)
    /\ call.op = "sharp_to_cube"
       => \A d \in KeyDoubles :
            Double_sharp_to_cube(d) = call.ret => d = Double_from_MultiCoord(call.self)

====
